---- MODULE Spec2Model ----
(***************************************************************************)
(* Weatherio front end (src/app.js): the location button handler           *)
(* getLocation, the geolocation success/error callbacks, the Leaflet.draw  *)
(* CREATED handler and the savePolygon click handler, as one state machine *)
(* whose steps are the browser's run-to-completion turns: a click handler  *)
(* up to its first await, and every continuation after an await.           *)
(***************************************************************************)
EXTENDS Integers, Sequences, FiniteSets, Bags, TLC

VARIABLES
    hasGeo,        \* navigator.geolocation is present (fixed by the browser)
    map,           \* app.js:1   the Leaflet map: [init, center, zoom, tiles, overlays, controls, handlers]
    layers,        \* the polygon objects created so far: layers[id] = its ring of <<lat, lng>>, or Unreferenced
    drawnItems,    \* app.js:2   ids of the layers in the L.FeatureGroup
    lastLayer,     \* app.js:3   id of the last drawn layer, or NULL
    result,        \* textContent of the element "result"
    alerts,        \* the alert() messages shown so far (a bag)
    net,           \* the fetch() calls issued so far (a bag)
    locs,          \* location flows, one per getCurrentPosition call: [pc, pos, data]
    saves,         \* save flows, one per POST issued by savePolygon: [pc, data]
    nLocClicks,    \* clicks on the location button
    nSaveClicks,   \* clicks on the save button
    mapsBuilt,     \* history: number of L.map('map') constructions
    builtBy,       \* history: the location flow that constructed the map (0: none)
    firstPos       \* history: the location flow whose success callback ran first (0: none)

vars == <<hasGeo, map, layers, drawnItems, lastLayer, result, alerts, net,
          locs, saves, nLocClicks, nSaveClicks, mapsBuilt, builtBy, firstPos>>

-----------------------------------------------------------------------------
(* Bounds of the model *)
MaxUserEvents == 4
MaxLocClicks == 2
MaxSaveClicks == 2
MaxDraws == 2

(* Program constants *)
NULL == 0
ZOOM == 13

(* Inputs the environment can supply *)
Positions == { <<40, -75>>, <<10, 20>> }
ErrMessages == { "User denied Geolocation", "Timeout expired" }
RingA == << <<1, 2>>, <<3, 4>>, <<5, 6>> >>
RingB == << <<7, 8>>, <<9, 10>>, <<11, 12>> >>
Rings == { RingA, RingB }
JsonNull == [kind |-> "null", fields |-> <<>>]
Obj(fields) == [kind |-> "object", fields |-> fields]
WeatherData == { Obj(<< <<"temp", 20>> >>),
                 Obj(<< <<"temp", 5>>, <<"wind", 3>> >>) }
SaveData == { Obj(<< <<"poly_id", 7>> >>),
              Obj(<< <<"status", 1>> >>),
              JsonNull }

-----------------------------------------------------------------------------
(* JSON.stringify(data, null, 2) of a parsed JSON value: null, or a flat     *)
(* object of numbers, one member per line indented by two spaces.           *)
RECURSIVE Members2(_, _)
Members2(fields, i) ==
    IF i > Len(fields) THEN ""
    ELSE "  \"" \o fields[i][1] \o "\": " \o ToString(fields[i][2])
         \o (IF i < Len(fields) THEN ",\n" ELSE "\n")
         \o Members2(fields, i + 1)

(* app.js:21 without the indent argument: JSON.stringify(data) *)
RECURSIVE Members0(_, _)
Members0(fields, i) ==
    IF i > Len(fields) THEN ""
    ELSE "\"" \o fields[i][1] \o "\":" \o ToString(fields[i][2])
         \o (IF i < Len(fields) THEN "," ELSE "")
         \o Members0(fields, i + 1)

JSONstringify2_Compact(data) ==
    IF data.kind = "null" THEN "null"
    ELSE "{" \o Members0(data.fields, 1) \o "}"

JSONstringify2(data) ==
    IF data.kind = "null" THEN "null"
    ELSE IF Len(data.fields) = 0 THEN "{}"
    ELSE "{\n" \o Members2(data.fields, 1) \o "}"

(* data.poly_id interpolated into a template string: the member's value, or *)
(* "undefined" when the object has no such member.                          *)
RECURSIVE Lookup(_, _, _)
Lookup(fields, key, i) ==
    IF i > Len(fields) THEN "undefined"
    ELSE IF fields[i][1] = key THEN ToString(fields[i][2])
    ELSE Lookup(fields, key, i + 1)

PolyIdText(data) == Lookup(data.fields, "poly_id", 1)

(* L.Polygon.toGeoJSON(): a Feature whose Polygon geometry holds the ring   *)
(* as [lng, lat] pairs, closed by repeating its first point.                *)
LatLngToCoords(ll) == <<ll[2], ll[1]>>

LatLngsToCoords(ring) ==
    [i \in 1..(Len(ring) + 1) |->
        IF i <= Len(ring) THEN LatLngToCoords(ring[i]) ELSE LatLngToCoords(ring[1])]

toGeoJSON(ring) ==
    [type |-> "Feature",
     properties |-> <<>>,
     geometry |-> [type |-> "Polygon", coordinates |-> <<LatLngsToCoords(ring)>>]]

(* JSON.stringify of the GeoJSON Feature and of {geo_json: geojson} *)
RECURSIVE CoordsText(_, _)
CoordsText(coords, i) ==
    IF i > Len(coords) THEN ""
    ELSE "[" \o ToString(coords[i][1]) \o "," \o ToString(coords[i][2]) \o "]"
         \o (IF i < Len(coords) THEN "," ELSE "")
         \o CoordsText(coords, i + 1)

JSONstringifyFeature(geojson) ==
    "{\"type\":\"" \o geojson.type
    \o "\",\"properties\":{},\"geometry\":{\"type\":\"" \o geojson.geometry.type
    \o "\",\"coordinates\":[[" \o CoordsText(geojson.geometry.coordinates[1], 1)
    \o "]]}}"

JSONstringifyBody(geojson) == "{\"geo_json\":" \o JSONstringifyFeature(geojson) \o "}"

WeatherUrl(pos) ==
    "/weather?latitude=" \o ToString(pos[1]) \o "&longitude=" \o ToString(pos[2])

GetRequest(pos) == [method |-> "GET", url |-> WeatherUrl(pos), body |-> ""]

(* app.js:65 with the wrapper object forgotten: the Feature itself is sent *)
PostRequest_Bare(ring) ==
    [method |-> "POST", url |-> "/create-polygon",
     body |-> JSONstringifyFeature(toGeoJSON(ring))]

PostRequest(ring) ==
    [method |-> "POST", url |-> "/create-polygon",
     body |-> JSONstringifyBody(toGeoJSON(ring))]

-----------------------------------------------------------------------------
(* A flow's locals before they are assigned, and after a flow has failed *)
NoPos == <<0, 0>>
NoData == [kind |-> "none", fields |-> <<>>]

NoMap == [init |-> FALSE, center |-> NoPos, zoom |-> 0,
          tiles |-> 0, overlays |-> 0, controls |-> 0, handlers |-> 0]

Init ==
    /\ hasGeo \in BOOLEAN
    /\ map = NoMap
    /\ layers = <<>>
    /\ drawnItems = {}
    /\ lastLayer = NULL
    /\ result = ""
    /\ alerts = EmptyBag
    /\ net = EmptyBag
    /\ locs = <<>>
    /\ saves = <<>>
    /\ nLocClicks = 0
    /\ nSaveClicks = 0
    /\ mapsBuilt = 0
    /\ builtBy = 0
    /\ firstPos = 0

(* User interactions so far: clicks on either button and finished drawings *)
nUserEvents == nLocClicks + nSaveClicks + Len(layers)

mapVars == <<map, mapsBuilt, builtBy>>
shapeVars == <<layers, drawnItems, lastLayer>>

-----------------------------------------------------------------------------
(* app.js:8 with the test left out: the position is requested regardless *)
GeoMissing_Never == FALSE

(* app.js:8: if (!navigator.geolocation) *)
GeoMissing == ~hasGeo

(* app.js:13 guarded by a busy flag: a click made while an earlier request  *)
(* is still in flight is ignored                                            *)
getLocation_Debounced ==
    /\ nUserEvents < MaxUserEvents /\ nLocClicks < MaxLocClicks
    /\ nLocClicks' = nLocClicks + 1
    /\ IF GeoMissing
       THEN /\ alerts' = alerts (+) SetToBag({"GPS not supported"})
            /\ UNCHANGED locs
       ELSE /\ locs' = IF \E i \in 1..Len(locs) : locs[i].pc \in {"pos", "fetch", "json"}
                       THEN locs
                       ELSE Append(locs, [pc |-> "pos", pos |-> NoPos, data |-> NoData])
            /\ UNCHANGED alerts
    /\ UNCHANGED <<hasGeo, mapVars, shapeVars, result, net, saves, nSaveClicks, firstPos>>

(* getLocation(), app.js:5-52, up to the return of getCurrentPosition *)
getLocation ==
    /\ nUserEvents < MaxUserEvents /\ nLocClicks < MaxLocClicks
    /\ nLocClicks' = nLocClicks + 1
    /\ IF GeoMissing
       THEN /\ alerts' = alerts (+) SetToBag({"GPS not supported"})
            /\ UNCHANGED locs
       ELSE /\ locs' = Append(locs, [pc |-> "pos", pos |-> NoPos, data |-> NoData])
            /\ UNCHANGED alerts
    /\ UNCHANGED <<hasGeo, mapVars, shapeVars, result, net, saves, nSaveClicks, firstPos>>

(* app.js:24-45 moved above the fetch: the map is set up as soon as the     *)
(* position is known, before any weather has been received                  *)
PositionSuccess_MapFirst(i, p) ==
    /\ locs[i].pc = "pos"
    /\ locs' = [locs EXCEPT ![i] = [pc |-> "fetch", pos |-> p, data |-> NoData]]
    /\ net' = net (+) SetToBag({GetRequest(p)})
    /\ firstPos' = IF firstPos = 0 THEN i ELSE firstPos
    /\ IF ~map.init
       THEN /\ map' = [init |-> TRUE, center |-> p, zoom |-> ZOOM,
                       tiles |-> 1, overlays |-> 1, controls |-> 1, handlers |-> 1]
            /\ mapsBuilt' = mapsBuilt + 1
            /\ builtBy' = i
       ELSE /\ map' = [map EXCEPT !.center = p, !.zoom = ZOOM]
            /\ UNCHANGED <<mapsBuilt, builtBy>>
    /\ UNCHANGED <<hasGeo, shapeVars, result, alerts, saves, nLocClicks, nSaveClicks>>

(* success callback, app.js:14-19, up to `await fetch(...)` *)
PositionSuccess(i, p) ==
    /\ locs[i].pc = "pos"
    /\ locs' = [locs EXCEPT ![i] = [pc |-> "fetch", pos |-> p, data |-> NoData]]
    /\ net' = net (+) SetToBag({GetRequest(p)})
    /\ firstPos' = IF firstPos = 0 THEN i ELSE firstPos
    /\ UNCHANGED <<hasGeo, mapVars, shapeVars, result, alerts, saves, nLocClicks, nSaveClicks>>

(* app.js:47-50 falling back to a default position: the alert is shown and  *)
(* a weather request is sent all the same                                   *)
PositionError_Fallback(i, msg) ==
    /\ locs[i].pc = "pos"
    /\ locs' = [locs EXCEPT ![i].pc = "poserr"]
    /\ alerts' = alerts (+) SetToBag({"Failed to get location: " \o msg})
    /\ net' = net (+) SetToBag({GetRequest(NoPos)})
    /\ UNCHANGED <<hasGeo, mapVars, shapeVars, result, saves, nLocClicks, nSaveClicks, firstPos>>

(* error callback, app.js:47-50 *)
PositionError(i, msg) ==
    /\ locs[i].pc = "pos"
    /\ locs' = [locs EXCEPT ![i].pc = "poserr"]
    /\ alerts' = alerts (+) SetToBag({"Failed to get location: " \o msg})
    /\ UNCHANGED <<hasGeo, mapVars, shapeVars, result, net, saves, nLocClicks, nSaveClicks, firstPos>>

(* `await fetch(...)` fulfils, app.js:19-20: res.json() is called and awaited *)
WeatherFetchResolve(i) ==
    /\ locs[i].pc = "fetch"
    /\ locs' = [locs EXCEPT ![i].pc = "json"]
    /\ UNCHANGED <<hasGeo, mapVars, shapeVars, result, alerts, net, saves, nLocClicks, nSaveClicks, firstPos>>

(* app.js:19 wrapped in a retry: a rejected fetch is issued again *)
WeatherFetchReject_Retry(i) ==
    /\ locs[i].pc = "fetch"
    /\ net' = net (+) SetToBag({GetRequest(locs[i].pos)})
    /\ UNCHANGED <<hasGeo, mapVars, shapeVars, result, alerts, locs, saves, nLocClicks, nSaveClicks, firstPos>>

(* `await fetch(...)` rejects, app.js:19: the callback's promise rejects, unhandled *)
WeatherFetchReject(i) ==
    /\ locs[i].pc = "fetch"
    /\ locs' = [locs EXCEPT ![i] = [pc |-> "failed", pos |-> NoPos, data |-> NoData]]
    /\ UNCHANGED <<hasGeo, mapVars, shapeVars, result, alerts, net, saves, nLocClicks, nSaveClicks, firstPos>>

(* `await res.json()` rejects, app.js:20 *)
WeatherJsonReject(i) ==
    /\ locs[i].pc = "json"
    /\ locs' = [locs EXCEPT ![i] = [pc |-> "failed", pos |-> NoPos, data |-> NoData]]
    /\ UNCHANGED <<hasGeo, mapVars, shapeVars, result, alerts, net, saves, nLocClicks, nSaveClicks, firstPos>>

(* app.js:25-42: the map constructed at [lat, lon] with its tile layer,     *)
(* overlay group, draw control and CREATED handler                          *)
NewMap(p) == [init |-> TRUE, center |-> p, zoom |-> ZOOM,
              tiles |-> 1, overlays |-> 1, controls |-> 1, handlers |-> 1]

(* app.js:44 left out: an existing map stays where it was *)
SetView_NoMove(m, p) == m

(* app.js:44: map.setView([lat, lon], 13) *)
SetView(m, p) == [m EXCEPT !.center = p, !.zoom = ZOOM]

(* app.js:24 with the test left out: the map is built on every result *)
MapMissing_Always == TRUE

(* app.js:24: if (!map) *)
MapMissing == ~map.init

(* app.js:21 with `+=` for `=`: the weather text is added to the display *)
Render_Append(text, data) == text \o JSONstringify2(data)

(* app.js:21: textContent = JSON.stringify(data, null, 2) *)
Render(text, data) == JSONstringify2(data)

(* app.js:21 moved into the `if (!map)` block: only the flow that builds    *)
(* the map writes its weather to the display                                *)
WeatherJsonResolve_RenderOnBuild(i, data) ==
    /\ locs[i].pc = "json"
    /\ locs' = [locs EXCEPT ![i] = [pc |-> "done", pos |-> locs[i].pos, data |-> data]]
    /\ IF MapMissing
       THEN /\ result' = Render(result, data)
            /\ map' = NewMap(locs[i].pos)
            /\ mapsBuilt' = mapsBuilt + 1
            /\ builtBy' = i
       ELSE /\ map' = SetView(map, locs[i].pos)
            /\ UNCHANGED <<result, mapsBuilt, builtBy>>
    /\ UNCHANGED <<hasGeo, shapeVars, alerts, net, saves, nLocClicks, nSaveClicks, firstPos>>

(* `await res.json()` fulfils, app.js:20-45: render, then build or recenter *)
WeatherJsonResolve(i, data) ==
    /\ locs[i].pc = "json"
    /\ locs' = [locs EXCEPT ![i] = [pc |-> "done", pos |-> locs[i].pos, data |-> data]]
    /\ result' = Render(result, data)
    /\ IF MapMissing
       THEN /\ map' = NewMap(locs[i].pos)
            /\ mapsBuilt' = mapsBuilt + 1
            /\ builtBy' = i
       ELSE /\ map' = SetView(map, locs[i].pos)
            /\ UNCHANGED <<mapsBuilt, builtBy>>
    /\ UNCHANGED <<hasGeo, shapeVars, alerts, net, saves, nLocClicks, nSaveClicks, firstPos>>

-----------------------------------------------------------------------------
(* A layer object nothing refers to any more (neither lastLayer nor the     *)
(* overlay group): its ring is dropped from the state.                      *)
Unreferenced == <<>>

(* CREATED handler, app.js:38-42: the overlay group after                   *)
(* `if (lastLayer) drawnItems.removeLayer(lastLayer)` and                   *)
(* `drawnItems.addLayer(e.layer)`                                           *)
(* app.js:39 left out: the previous layer stays in the group *)
CreatedItems_KeepOld(items, last, new) == items \cup {new}

CreatedItems(items, last, new) ==
    (IF last # NULL THEN items \ {last} ELSE items) \cup {new}

(* The user finishes drawing a polygon with the draw control: Leaflet.draw  *)
(* fires CREATED with a new layer, handled by app.js:38-42.                 *)
DrawCreated(ring) ==
    /\ map.init /\ map.controls > 0 /\ map.handlers > 0
    /\ nUserEvents < MaxUserEvents /\ Len(layers) < MaxDraws
    /\ LET e == Len(layers) + 1 IN
        /\ drawnItems' = CreatedItems(drawnItems, lastLayer, e)
        /\ lastLayer' = e
        /\ layers' = [k \in 1..e |->
                        IF k = e THEN ring
                        ELSE IF k \in drawnItems' THEN layers[k]
                        ELSE Unreferenced]
    /\ UNCHANGED <<hasGeo, mapVars, result, alerts, net, locs, saves, nLocClicks, nSaveClicks, firstPos>>

(* The edit toolbar enabled by `edit: { featureGroup: drawnItems }`,        *)
(* app.js:34: the user reshapes a layer of the overlay group in place.      *)
EditShape(l, ring) ==
    /\ map.init /\ map.controls > 0
    /\ l \in drawnItems
    /\ layers[l] # ring
    /\ layers' = [layers EXCEPT ![l] = ring]
    /\ UNCHANGED <<hasGeo, mapVars, drawnItems, lastLayer, result, alerts, net, locs, saves,
                   nLocClicks, nSaveClicks, firstPos>>

(* The same toolbar's delete tool: the user removes a layer from the group. *)
DeleteShape(l) ==
    /\ map.init /\ map.controls > 0
    /\ l \in drawnItems
    /\ drawnItems' = drawnItems \ {l}
    /\ UNCHANGED <<hasGeo, mapVars, layers, lastLayer, result, alerts, net, locs, saves,
                   nLocClicks, nSaveClicks, firstPos>>

-----------------------------------------------------------------------------
(* app.js:56: if (!lastLayer) *)
NoShape == lastLayer = NULL

(* app.js:57 left out: the handler returns without telling the user *)
savePolygon_Silent ==
    /\ nUserEvents < MaxUserEvents /\ nSaveClicks < MaxSaveClicks
    /\ nSaveClicks' = nSaveClicks + 1
    /\ IF NoShape
       THEN UNCHANGED <<alerts, net, saves>>
       ELSE /\ net' = net (+) SetToBag({PostRequest(layers[lastLayer])})
            /\ saves' = Append(saves, [pc |-> "fetch", data |-> NoData])
            /\ UNCHANGED alerts
    /\ UNCHANGED <<hasGeo, mapVars, shapeVars, result, locs, nLocClicks, firstPos>>

(* app.js:61-66 followed by a reset of the shape: the saved layer is taken  *)
(* off the map and forgotten                                                *)
savePolygon_Consume ==
    /\ nUserEvents < MaxUserEvents /\ nSaveClicks < MaxSaveClicks
    /\ nSaveClicks' = nSaveClicks + 1
    /\ IF NoShape
       THEN /\ alerts' = alerts (+) SetToBag({"Draw a polygon first!"})
            /\ UNCHANGED <<net, saves, shapeVars>>
       ELSE /\ net' = net (+) SetToBag({PostRequest(layers[lastLayer])})
            /\ saves' = Append(saves, [pc |-> "fetch", data |-> NoData])
            /\ drawnItems' = drawnItems \ {lastLayer}
            /\ lastLayer' = NULL
            /\ UNCHANGED <<alerts, layers>>
    /\ UNCHANGED <<hasGeo, mapVars, result, locs, nLocClicks, firstPos>>

(* savePolygon onclick, app.js:55-66, up to `await fetch(...)` *)
savePolygon ==
    /\ nUserEvents < MaxUserEvents /\ nSaveClicks < MaxSaveClicks
    /\ nSaveClicks' = nSaveClicks + 1
    /\ IF NoShape
       THEN /\ alerts' = alerts (+) SetToBag({"Draw a polygon first!"})
            /\ UNCHANGED <<net, saves>>
       ELSE /\ net' = net (+) SetToBag({PostRequest(layers[lastLayer])})
            /\ saves' = Append(saves, [pc |-> "fetch", data |-> NoData])
            /\ UNCHANGED alerts
    /\ UNCHANGED <<hasGeo, mapVars, shapeVars, result, locs, nLocClicks, firstPos>>

(* `await fetch('/create-polygon', ...)` fulfils, app.js:62-68 *)
SaveFetchResolve(j) ==
    /\ saves[j].pc = "fetch"
    /\ saves' = [saves EXCEPT ![j].pc = "json"]
    /\ UNCHANGED <<hasGeo, mapVars, shapeVars, result, alerts, net, locs, nLocClicks, nSaveClicks, firstPos>>

(* app.js:62 wrapped in try/catch: a rejected POST is reported by an alert *)
SaveFetchReject_Alert(j) ==
    /\ saves[j].pc = "fetch"
    /\ saves' = [saves EXCEPT ![j].pc = "failed"]
    /\ alerts' = alerts (+) SetToBag({"Failed to save polygon"})
    /\ UNCHANGED <<hasGeo, mapVars, shapeVars, result, net, locs, nLocClicks, nSaveClicks, firstPos>>

(* `await fetch('/create-polygon', ...)` rejects, app.js:62 *)
SaveFetchReject(j) ==
    /\ saves[j].pc = "fetch"
    /\ saves' = [saves EXCEPT ![j].pc = "failed"]
    /\ UNCHANGED <<hasGeo, mapVars, shapeVars, result, alerts, net, locs, nLocClicks, nSaveClicks, firstPos>>

(* `await response.json()` rejects, app.js:68 *)
SaveJsonReject(j) ==
    /\ saves[j].pc = "json"
    /\ saves' = [saves EXCEPT ![j].pc = "failed"]
    /\ UNCHANGED <<hasGeo, mapVars, shapeVars, result, alerts, net, locs, nLocClicks, nSaveClicks, firstPos>>

(* app.js:69 with `=` for `+=`: the saved line replaces the display *)
AppendSaved_Overwrite(text, data) == "\nPolygon saved! ID: " \o PolyIdText(data)

(* app.js:69: textContent += `\nPolygon saved! ID: ${data.poly_id}` *)
AppendSaved(text, data) == text \o "\nPolygon saved! ID: " \o PolyIdText(data)

(* `await response.json()` fulfils, app.js:68-69; reading data.poly_id of    *)
(* null throws a TypeError, which rejects the handler's promise.            *)
SaveJsonResolve(j, data) ==
    /\ saves[j].pc = "json"
    /\ IF data.kind = "null"
       THEN /\ saves' = [saves EXCEPT ![j].pc = "failed"]
            /\ UNCHANGED result
       ELSE /\ saves' = [saves EXCEPT ![j] = [pc |-> "done", data |-> data]]
            /\ result' = AppendSaved(result, data)
    /\ UNCHANGED <<hasGeo, mapVars, shapeVars, alerts, net, locs, nLocClicks, nSaveClicks, firstPos>>

Next ==
    \/ getLocation
    \/ \E i \in 1..Len(locs), p \in Positions : PositionSuccess(i, p)
    \/ \E i \in 1..Len(locs), msg \in ErrMessages : PositionError(i, msg)
    \/ \E i \in 1..Len(locs) : WeatherFetchResolve(i)
    \/ \E i \in 1..Len(locs) : WeatherFetchReject(i)
    \/ \E i \in 1..Len(locs) : WeatherJsonReject(i)
    \/ \E i \in 1..Len(locs), data \in WeatherData : WeatherJsonResolve(i, data)
    \/ \E ring \in Rings : DrawCreated(ring)
    \/ \E l \in drawnItems, ring \in Rings : EditShape(l, ring)
    \/ \E l \in drawnItems : DeleteShape(l)
    \/ savePolygon
    \/ \E j \in 1..Len(saves) : SaveFetchResolve(j)
    \/ \E j \in 1..Len(saves) : SaveFetchReject(j)
    \/ \E j \in 1..Len(saves) : SaveJsonReject(j)
    \/ \E j \in 1..Len(saves), data \in SaveData : SaveJsonResolve(j, data)

Spec == Init /\ [][Next]_vars

-----------------------------------------------------------------------------
(* Vocabulary of the properties *)
Alert(msg) == SetToBag({msg})
NetCount(m) ==
    LET S == {r \in BagToSet(net) : r.method = m}
    IN  BagCardinality([r \in S |-> net[r]])
LocInFlight(i) == locs[i].pc \in {"pos", "fetch", "json"}
SaveInFlight(j) == saves[j].pc \in {"fetch", "json"}
SaveClicked == nSaveClicks' = nSaveClicks + 1
LocClicked == nLocClicks' = nLocClicks + 1
Drawn == Len(layers') = Len(layers) + 1
Temp20Text == "{\n  \"temp\": 20\n}"

(* C1: after every draw-created event the overlay group holds exactly one   *)
(* shape, the one just drawn; whatever it held before has been removed.     *)
C1_OneShapeAfterDraw ==
    [][Drawn => /\ drawnItems' = {Len(layers')}
                /\ lastLayer' = Len(layers')
                /\ layers'[lastLayer'] \in Rings]_vars

C1_Witness == Len(layers) = 2 /\ drawnItems = {2} /\ lastLayer = 2

(* C2 as stated: the map is built on the first successful position result,  *)
(* i.e. by the flow whose position callback succeeded first.                *)
C2_BuiltOnFirstPosition == map.init => builtBy = firstPos

(* C2 amended: the map is built at most once, by the first location flow    *)
(* whose weather response is rendered; every later rendered response only   *)
(* recenters it; tile layer, overlay group, draw control and draw-created   *)
(* handler are installed once.                                              *)
C2_BuiltOnceOnFirstRender ==
    /\ [](/\ mapsBuilt <= 1
          /\ map.init <=> mapsBuilt = 1
          /\ map.init => /\ map.tiles = 1 /\ map.overlays = 1
                         /\ map.controls = 1 /\ map.handlers = 1
                         /\ map.zoom = 13)
    /\ [][\A i \in 1..Len(locs) :
            (locs[i].pc = "json" /\ locs'[i].pc = "done") =>
                /\ map'.init /\ map'.center = locs[i].pos
                /\ IF map.init
                   THEN mapsBuilt' = mapsBuilt /\ builtBy' = builtBy
                   ELSE mapsBuilt' = 1 /\ builtBy' = i]_vars
    /\ [][(\A i \in 1..Len(locs) : ~(locs[i].pc = "json" /\ locs'[i].pc = "done"))
            => UNCHANGED <<map, mapsBuilt, builtBy>>]_vars

C2_Witness ==
    /\ Len(locs) = 2 /\ locs[1].pc = "done" /\ locs[2].pc = "done"
    /\ firstPos = 1 /\ builtBy = 2 /\ mapsBuilt = 1
    /\ locs[1].pos # locs[2].pos /\ map.center = locs[1].pos

(* C3: a save click while lastLayer is null shows "Draw a polygon first!",  *)
(* issues no network call and leaves display, map and shape untouched.      *)
C3_NoShapeDrawn ==
    [][(SaveClicked /\ lastLayer = NULL) =>
          /\ alerts' = alerts (+) Alert("Draw a polygon first!")
          /\ UNCHANGED <<net, saves, result, map, lastLayer, drawnItems, layers, locs>>]_vars

C3_Witness ==
    /\ lastLayer = NULL
    /\ CopiesIn("Draw a polygon first!", alerts) = 1
    /\ \E i \in 1..Len(locs) : locs[i].pc = "json"

(* C4: a save click while a shape is current issues exactly one POST to      *)
(* /create-polygon carrying the shape's GeoJSON as of the click; no other   *)
(* step adds, removes or alters a POST, so a later drawing cannot change it.*)
ExpectedBody(ring) ==
    IF ring = RingA
    THEN "{\"geo_json\":{\"type\":\"Feature\",\"properties\":{},\"geometry\":{\"type\":\"Polygon\",\"coordinates\":[[[2,1],[4,3],[6,5],[2,1]]]}}}"
    ELSE "{\"geo_json\":{\"type\":\"Feature\",\"properties\":{},\"geometry\":{\"type\":\"Polygon\",\"coordinates\":[[[8,7],[10,9],[12,11],[8,7]]]}}}"

Posts(bag) ==
    LET S == {r \in BagToSet(bag) : r.method = "POST"} IN [r \in S |-> bag[r]]

C4_OnePostOfClickedShape ==
    [][IF SaveClicked /\ lastLayer # NULL
       THEN net' = net (+) SetToBag({[method |-> "POST", url |-> "/create-polygon",
                                      body |-> ExpectedBody(layers[lastLayer])]})
       ELSE Posts(net') = Posts(net)]_vars

C4_Witness ==
    /\ Len(saves) = 1 /\ SaveInFlight(1)
    /\ Len(layers) = 2 /\ lastLayer = 2 /\ layers[2] = RingB
    /\ Posts(net) = SetToBag({[method |-> "POST", url |-> "/create-polygon",
                               body |-> ExpectedBody(RingA)]})

(* C5: processing a save response {poly_id: X} leaves the display equal to  *)
(* its previous content followed by "\nPolygon saved! ID: X".               *)
C5_AppendsSavedId ==
    [][\A j \in 1..Len(saves) :
          (saves[j].pc = "json" /\ saves'[j].pc = "done"
           /\ saves'[j].data = Obj(<< <<"poly_id", 7>> >>)) =>
              result' = result \o "\nPolygon saved! ID: 7"]_vars

C5_Witness ==
    /\ Len(saves) = 2 /\ saves[1].pc = "json" /\ saves[2].pc = "done"
    /\ result = Temp20Text \o "\nPolygon saved! ID: 7"

(* C6: a location click without the geolocation capability shows           *)
(* "GPS not supported", requests no position, issues no network call and    *)
(* leaves map, shape, overlay group and display untouched.                  *)
C6_CapabilityUnavailable ==
    [][(LocClicked /\ ~hasGeo) =>
          /\ alerts' = alerts (+) Alert("GPS not supported")
          /\ UNCHANGED <<locs, net, map, lastLayer, drawnItems, layers, result, saves>>]_vars

C6_Witness ==
    /\ ~hasGeo /\ nLocClicks = 2
    /\ CopiesIn("GPS not supported", alerts) = 2
    /\ Len(locs) = 0 /\ net = EmptyBag

(* C7: a failed position request shows "Failed to get location: <message>", *)
(* issues no weather GET then or later, and leaves map, shape, overlay      *)
(* group and display untouched.                                             *)
C7_LocationUnavailable ==
    [][\A i \in 1..Len(locs) :
          /\ (locs[i].pc = "pos" /\ locs'[i].pc = "poserr") =>
                /\ \E msg \in ErrMessages :
                      alerts' = alerts (+) Alert("Failed to get location: " \o msg)
                /\ UNCHANGED <<net, map, lastLayer, drawnItems, layers, result, saves>>
          /\ locs[i].pc = "poserr" => locs'[i] = locs[i]]_vars

C7_Witness ==
    /\ map.init /\ lastLayer # NULL
    /\ \E i \in 1..Len(locs) : locs[i].pc = "poserr"
    /\ CopiesIn("Failed to get location: Timeout expired", alerts) = 1
    /\ NetCount("GET") = 1

(* C8: a rejected weather fetch or JSON parse, and a rejected POST or JSON  *)
(* parse, end the flow for good: no alert, no further request, and display, *)
(* map, shape and overlay group as they were.                               *)
C8_UncaughtFailure ==
    [][/\ \A i \in 1..Len(locs) :
            /\ (locs[i].pc \in {"fetch", "json"} /\ locs'[i].pc = "failed") =>
                  UNCHANGED <<alerts, net, result, map, lastLayer, drawnItems, layers, saves>>
            /\ locs[i].pc = "failed" => locs'[i] = locs[i]
       /\ \A j \in 1..Len(saves) :
            /\ (saves[j].pc \in {"fetch", "json"} /\ saves'[j].pc = "failed") =>
                  UNCHANGED <<alerts, net, result, map, lastLayer, drawnItems, layers, locs>>
            /\ saves[j].pc = "failed" => saves'[j] = saves[j]]_vars

C8_Witness ==
    /\ Len(locs) = 2 /\ locs[1].pc = "done" /\ locs[2].pc = "failed"
    /\ Len(saves) = 1 /\ saves[1].pc = "failed"
    /\ alerts = EmptyBag
    /\ map.init /\ map.center = locs[1].pos /\ result = Temp20Text

(* C9: one location click, its position and weather results, one drawing,   *)
(* one save click and the response {poly_id: 7} end with the map at that    *)
(* position and zoom 13, exactly one POST issued, and the display showing   *)
(* the pretty-printed weather followed by "\nPolygon saved! ID: 7".         *)
ScenarioDone ==
    /\ nLocClicks = 1 /\ nSaveClicks = 1 /\ Len(layers) = 1
    /\ Len(locs) = 1 /\ locs[1].pc = "done"
    /\ locs[1].pos = <<40, -75>> /\ locs[1].data = Obj(<< <<"temp", 20>> >>)
    /\ Len(saves) = 1 /\ saves[1].pc = "done"
    /\ saves[1].data = Obj(<< <<"poly_id", 7>> >>)

C9_EndToEnd ==
    ScenarioDone =>
        /\ map.init /\ map.center = <<40, -75>> /\ map.zoom = 13
        /\ NetCount("POST") = 1
        /\ NetCount("GET") = 1
        /\ CopiesIn([method |-> "GET", url |-> "/weather?latitude=40&longitude=-75",
                     body |-> ""], net) = 1
        /\ result = "{\n  \"temp\": 20\n}\nPolygon saved! ID: 7"

C9_Witness == ScenarioDone /\ drawnItems = {1} /\ alerts = EmptyBag

(* C10: no request is ever repeated: weather GETs match the position        *)
(* callbacks that succeeded, position requests match the location clicks    *)
(* made with geolocation present, and POSTs match the save clicks made      *)
(* while a shape existed.                                                   *)
C10_NoRetries ==
    /\ NetCount("GET") = Cardinality({i \in 1..Len(locs) : locs[i].pc \notin {"pos", "poserr"}})
    /\ Len(locs) = (IF hasGeo THEN nLocClicks ELSE 0)
    /\ NetCount("POST") = nSaveClicks - CopiesIn("Draw a polygon first!", alerts)
    /\ NetCount("POST") = Len(saves)

C10_Witness ==
    /\ Len(locs) = 2 /\ locs[1].pc = "done" /\ locs[2].pc = "failed"
    /\ Len(saves) = 1 /\ saves[1].pc = "failed"
    /\ NetCount("GET") = 2 /\ NetCount("POST") = 1

(* The display text of each weather response the model supplies *)
ExpectedWeatherText(data) ==
    IF data = Obj(<< <<"temp", 20>> >>)
    THEN "{\n  \"temp\": 20\n}"
    ELSE "{\n  \"temp\": 5,\n  \"wind\": 3\n}"

Rendered(i) == locs[i].pc = "json" /\ locs'[i].pc = "done"

(* C11: a location click made while another flow is in flight starts a      *)
(* further flow and leaves the earlier ones as they are; each flow issues   *)
(* its own GET, and each processed weather response sets the display and    *)
(* the map center to its own flow's, so the flow processed last decides.    *)
C11_IndependentFlows ==
    /\ [][(LocClicked /\ hasGeo) =>
             /\ Len(locs') = Len(locs) + 1
             /\ locs'[Len(locs')].pc = "pos"
             /\ \A i \in 1..Len(locs) : locs'[i] = locs[i]]_vars
    /\ [][\A i \in 1..Len(locs) :
             /\ (locs[i].pc = "pos" /\ locs'[i].pc = "fetch") =>
                   /\ net' = net (+) SetToBag({[method |-> "GET",
                                                url |-> WeatherUrl(locs'[i].pos),
                                                body |-> ""]})
                   /\ \A k \in 1..Len(locs) : k # i => locs'[k] = locs[k]
             /\ Rendered(i) =>
                   /\ result' = ExpectedWeatherText(locs'[i].data)
                   /\ map'.center = locs[i].pos
                   /\ \A k \in 1..Len(locs) : k # i => locs'[k] = locs[k]]_vars

(* the flow clicked first is processed last and decides the outcome *)
C11_Witness ==
    /\ Len(locs) = 2 /\ locs[1].pc = "done" /\ locs[2].pc = "done"
    /\ builtBy = 2 /\ NetCount("GET") = 2
    /\ locs[1].pos = <<40, -75>> /\ locs[2].pos = <<10, 20>>
    /\ locs[1].data # locs[2].data
    /\ map.center = <<40, -75>> /\ result = ExpectedWeatherText(locs[1].data)

(* the flow clicked second is processed while the first is still in flight *)
C11_WitnessSecondFirst ==
    /\ Len(locs) = 2 /\ locs[1].pc = "json" /\ locs[2].pc = "done"
    /\ locs[1].pos = <<40, -75>> /\ locs[2].pos = <<10, 20>>
    /\ map.center = <<10, 20>> /\ result = ExpectedWeatherText(locs[2].data)

(* C12: a weather response processed while the map exists recenters it at   *)
(* the flow's position with zoom 13 and nothing else of it; no step of a    *)
(* location flow changes lastLayer, the overlay group or a layer.           *)
LocStep == LocClicked \/ locs' # locs

C12_RecenterKeepsShape ==
    /\ [][\A i \in 1..Len(locs) :
             (Rendered(i) /\ map.init) =>
                 map' = [map EXCEPT !.center = locs[i].pos, !.zoom = 13]]_vars
    /\ [][LocStep => UNCHANGED <<lastLayer, drawnItems, layers>>]_vars

(* the save was answered before the second flow rendered, so the shape was  *)
(* there when the map was recentered                                        *)
C12_Witness ==
    /\ Len(locs) = 2 /\ locs[1].pc = "done" /\ locs[2].pc = "done" /\ builtBy = 1
    /\ locs[1].pos # locs[2].pos /\ map.center = locs[2].pos /\ map.zoom = 13
    /\ Len(saves) = 1 /\ saves[1].pc = "done"
    /\ result = ExpectedWeatherText(locs[2].data)
    /\ lastLayer = 1 /\ drawnItems = {1} /\ layers[1] = RingA

(* C13: no step of a save flow (click, response, failure) changes           *)
(* lastLayer, the overlay group, a layer or the map, and every save click   *)
(* on a shape POSTs that shape's serialization.                             *)
SaveStep == SaveClicked \/ saves' # saves

C13_SaveKeepsShape ==
    /\ [][SaveStep => UNCHANGED <<lastLayer, drawnItems, layers, map>>]_vars
    /\ [][(SaveClicked /\ lastLayer # NULL) =>
             CopiesIn([method |-> "POST", url |-> "/create-polygon",
                       body |-> ExpectedBody(layers[lastLayer])], net')
             = CopiesIn([method |-> "POST", url |-> "/create-polygon",
                         body |-> ExpectedBody(layers[lastLayer])], net) + 1]_vars

C13_Witness ==
    /\ Len(saves) = 2 /\ saves[1].pc = "done" /\ saves[2].pc = "failed"
    /\ lastLayer = 1 /\ drawnItems = {1} /\ layers[1] = RingB /\ map.init
    /\ CopiesIn([method |-> "POST", url |-> "/create-polygon",
                 body |-> ExpectedBody(RingB)], net) = 2

(* C14: a non-null lastLayer implies an initialized map and a rendered      *)
(* weather result, and so does every POST issued.                           *)
SomeRendered == \E i \in 1..Len(locs) : locs[i].pc = "done"

C14_ShapeNeedsMap ==
    /\ lastLayer # NULL => (map.init /\ SomeRendered)
    /\ drawnItems # {} => (map.init /\ SomeRendered)
    /\ map.init => SomeRendered
    /\ NetCount("POST") > 0 => (map.init /\ SomeRendered)

C14_Witness ==
    /\ lastLayer = 1 /\ NetCount("POST") = 1 /\ map.init
    /\ Len(locs) = 2 /\ locs[1].pc = "failed" /\ locs[2].pc = "done" /\ builtBy = 2

(* C15: whenever the map exists, its center is the position of a finished   *)
(* flow whose weather text is what the display shows, possibly followed by  *)
(* saved-ID lines: render and map update of a flow are never seen apart.    *)
SavedLines == { "\nPolygon saved! ID: 7", "\nPolygon saved! ID: undefined" }

RECURSIVE SavedSuffixes(_)
SavedSuffixes(n) ==
    IF n = 0 THEN {""}
    ELSE LET S == SavedSuffixes(n - 1)
         IN  S \cup {x \o l : x \in S, l \in SavedLines}

C15_RenderAndCenterTogether ==
    map.init =>
        \E i \in 1..Len(locs) :
            /\ locs[i].pc = "done"
            /\ map.center = locs[i].pos
            /\ \E sfx \in SavedSuffixes(Len(saves)) :
                  result = ExpectedWeatherText(locs[i].data) \o sfx

C15_Witness ==
    /\ Len(locs) = 2 /\ locs[1].pc = "done" /\ locs[2].pc = "done" /\ builtBy = 2
    /\ locs[1].pos # locs[2].pos /\ locs[1].data # locs[2].data
    /\ map.center = locs[1].pos
    /\ Len(saves) = 1 /\ saves[1].pc = "done"
    /\ result = ExpectedWeatherText(locs[1].data) \o "\nPolygon saved! ID: 7"

(* C16: right after a weather response is processed the display is exactly  *)
(* that response's pretty-printed text, whatever it held before.            *)
C16_RenderReplacesDisplay ==
    [][\A i \in 1..Len(locs) :
          Rendered(i) => result' = ExpectedWeatherText(locs'[i].data)]_vars

(* a saved-ID line was appended and a later weather response erased it *)
C16_Witness ==
    /\ Len(saves) = 1 /\ saves[1].pc = "done" /\ saves[1].data = Obj(<< <<"poly_id", 7>> >>)
    /\ Len(locs) = 2 /\ locs[1].pc = "done" /\ locs[2].pc = "done"
    /\ locs[1].data = Obj(<< <<"temp", 20>> >>)
    /\ result = "{\n  \"temp\": 5,\n  \"wind\": 3\n}"

(* C17: lastLayer is null exactly when the overlay group is empty, and a    *)
(* non-null lastLayer is the group's only member.                           *)
C17_ShapeAgreesWithGroup ==
    /\ lastLayer = NULL <=> drawnItems = {}
    /\ lastLayer # NULL => drawnItems = {lastLayer}

====
